---- MODULE Spec2Model ----
(***************************************************************************)
(* Model of src/donut-explained.js: the torus script (lines 1-169) and the *)
(* black-hole IIFE (lines 171-444) that share one page.                    *)
(*                                                                         *)
(* Numbers.  The program computes in IEEE doubles; the model computes in   *)
(* fixed point.  Angles are in units of 1/FP radian, sines, cosines and    *)
(* world coordinates in units of 1/FP, zoom distances in hundredths        *)
(* (K2 = 500 is 5.00), screen positions of the black-hole scene in         *)
(* hundredths of a cell.  Depth keys of the torus are in units of          *)
(* 1/TorusKeyScale; depth keys of the black-hole scene are in units of     *)
(* 2^-28, fine enough that the Float32Array store rounds them.             *)
(***************************************************************************)
EXTENDS Integers, Sequences, FiniteSets, TLC

(***************************************************************************)
(* Fixed-point arithmetic                                                  *)
(***************************************************************************)
FP == 100 * 100

\* floor(a / b) for b # 0
FloorDiv(a, b) == IF b > 0 THEN a \div b ELSE (0 - a) \div (0 - b)

\* the product of two fixed-point numbers
Mul(a, b) == (a * b) \div FP

Min(a, b) == IF a < b THEN a ELSE b
Max(a, b) == IF a > b THEN a ELSE b
Abs(a) == IF a < 0 THEN 0 - a ELSE a

\* Math.PI and 2 * Math.PI in angle units
PI == 31416
TAU == 62832

\* Math.sin on [0, PI/2]: the Taylor polynomial to x^9 in Horner form
SinQ(x) ==
    LET x2 == (x * x) \div FP
        t4 == FP - (x2 \div 72)
        t3 == FP - ((x2 * t4) \div FP) \div 42
        t2 == FP - ((x2 * t3) \div FP) \div 20
        t1 == FP - ((x2 * t2) \div FP) \div 6
    IN  (x * t1) \div FP

\* Math.sin
Sin(x) ==
    LET r == x % TAU
        h == IF r >= PI THEN r - PI ELSE r
        q == IF h > PI \div 2 THEN PI - h ELSE h
    IN  IF r >= PI THEN 0 - SinQ(q) ELSE SinQ(q)

\* Math.cos
Cos(x) == Sin(x + PI \div 2)

\* Math.sqrt, rounded down: Newton's iteration from above
RECURSIVE SqrtIter(_, _)
SqrtIter(n, g) ==
    LET g2 == (g + n \div g) \div 2
    IN  IF g2 >= g THEN g ELSE SqrtIter(n, g2)

Sqrt(n) ==
    IF n <= 0 THEN 0
    ELSE SqrtIter(n, IF n < 10000 THEN 100
                     ELSE IF n < 1000000 THEN 1000
                     ELSE IF n < 100000000 THEN 10000 ELSE 46340)

\* set \cup {x}, built so that repeated insertion does not nest unions
With(set, x) == IF x \in set THEN set ELSE set \cup {x}

(***************************************************************************)
(* State                                                                   *)
(***************************************************************************)
VARIABLES
    \* the torus script's globals (lines 14-26) and renderFrame's two arrays
    rotationX, rotationZ, K2, output, zBuffer,
    \* the black-hole closure's variables (lines 178, 196-200, 217); its K2
    \* is holeK2 here, buf and zbuf are tracked by length in bufLen and
    \* zbufLen and by content in buf and zbuf
    A, B, vA, vB, holeK2, W, H, N, bufLen, zbufLen, buf, zbuf, resizeTimer,
    \* the browser: window.innerWidth, window.innerHeight and the size of
    \* the probe span that measure() reads
    innerWidth, innerHeight, offsetWidth, offsetHeight,
    \* milliseconds until the two setInterval callbacks are due
    untilAnimate, untilRender,
    \* the position inside a render in progress
    pc,
    \* history: input events, timer frames and runs of the resize timer so
    \* far, the last wheel pair,
    \* the frame last handed to the <pre> element by each script
    inputs, frames, measures, wheelPair, shownTorus, shownHole,
    \* history of the frame in progress: ramp indices used, raw indices
    \* before clamping, the smallest perspective depth written, and per cell
    \* the layer that owns it and the layers offered to it
    rampUsed, rawIndex, minDepth, owner, offered,
    \* history of the depth test: per probed cell the depth key of the
    \* sample whose glyph it shows and the largest key offered to it
    holderKey, bestKey

torusVars == <<rotationX, rotationZ, K2>>
torusFrame == <<output, zBuffer>>
holeVars == <<A, B, vA, vB, holeK2>>
gridVars == <<W, H, N, bufLen, zbufLen>>
holeFrame == <<buf, zbuf>>
envVars == <<innerWidth, innerHeight, offsetWidth, offsetHeight>>
timeVars == <<untilAnimate, untilRender, resizeTimer>>
eventHist == <<inputs, frames, measures, wheelPair, shownTorus, shownHole>>
frameHist == <<rampUsed, rawIndex, minDepth, owner, offered>>
depthHist == <<holderKey, bestKey>>

vars == <<torusVars, torusFrame, holeVars, gridVars, holeFrame, envVars,
          timeVars, pc, eventHist, frameHist, depthHist>>

(***************************************************************************)
(* The torus script (lines 1-169)                                          *)
(***************************************************************************)
K2_MIN == 200
K2_MAX == 1500
SCREEN_WIDTH == 120
SCREEN_HEIGHT == 35
R2 == 2
LUMINANCE_CHARS == <<".", ",", "-", "~", ":", ";", "=", "!", "*", "#", "$", "@">>

\* chars[i] of a JavaScript string: undefined outside it
Glyph(chars, i) == IF i >= 0 /\ i < Len(chars) THEN chars[i + 1] ELSE "undefined"

\* the mousemove listener: event.clientX / window.innerWidth is num / den
TorusRotation(num, den) == (TAU * num) \div den

\* TorusZoom clamped to the interval of the other scene
TorusZoomTo12(zoom, deltaY) == Max(K2_MIN, Min(1200, zoom + deltaY))

\* the wheel listener: K2 += deltaY * 0.01, then the clamp
TorusZoom(zoom, deltaY) == Max(K2_MIN, Min(K2_MAX, zoom + deltaY))

\* the loops "for (theta = 0; theta < 2 * Math.PI; theta += 0.07)" and
\* "for (phi = 0; phi < 2 * Math.PI; phi += 0.02)" run this many times
ThetaSteps == (TAU - 1) \div 700 + 1
PhiSteps == (TAU - 1) \div 200 + 1

SinTheta == [k \in 0..(ThetaSteps - 1) |-> Sin(700 * k)]
CosTheta == [k \in 0..(ThetaSteps - 1) |-> Cos(700 * k)]
SinPhi == [j \in 0..(PhiSteps - 1) |-> Sin(200 * j)]
CosPhi == [j \in 0..(PhiSteps - 1) |-> Cos(200 * j)]

\* depth keys of the torus are oneOverZ in units of 1 / TorusKeyScale
TorusKeyScale == 100 * 1000

\* lines 77-80: the cleared arrays
ClearOutput == [i \in 0..(SCREEN_WIDTH * SCREEN_HEIGHT - 1) |->
                  IF i % SCREEN_WIDTH = SCREEN_WIDTH - 1 THEN "\n" ELSE " "]
ClearZBuffer == [i \in 0..(SCREEN_WIDTH * SCREEN_HEIGHT - 1) |-> 0]

\* CharIndex without the test for a negative luminance
CharIndexRaw(luminance) == luminance

\* line 151
CharIndex(luminance) == IF luminance > 0 THEN luminance ELSE 0

\* lines 93-139 for the sample (theta, phi) = (0.07 k, 0.02 j).  A zero
\* denominator makes oneOverZ infinite and the screen position infinite or
\* NaN (finite = FALSE).  screenX is floor(60 + 45 * x / depth), which is
\* the program's floor(60 + 45 * oneOverZ * x).
TorusSample(k, j, sinX, cosX, sinZ, cosZ, zoom) ==
    LET circleX == CosTheta[k] + R2 * FP
        circleY == SinTheta[k]
        sc == Mul(SinPhi[j], circleX)
        cc == Mul(CosPhi[j], circleX)
        den == Mul(sc, sinX) + Mul(circleY, cosX) + zoom * (FP \div 100)
        t == Mul(sc, cosX) - Mul(circleY, sinX)
        xt == Mul(cc, cosZ) - Mul(t, sinZ)
        yt == Mul(cc, sinZ) + Mul(t, cosZ)
        nsp == Mul(SinPhi[j], CosTheta[k])
        ncp == Mul(CosPhi[j], CosTheta[k])
        lexp == Mul(Mul(circleY, sinX) - Mul(nsp, cosX), cosZ)
                  - Mul(nsp, sinX) - Mul(circleY, cosX) - Mul(ncp, sinZ)
    IN  IF den = 0
        THEN [finite |-> FALSE, screenX |-> 0, screenY |-> 0, oneOverZ |-> 0,
              luminance |-> 0, depth |-> 0]
        ELSE [finite |-> TRUE,
              screenX |-> FloorDiv(60 * den + 45 * xt, den),
              screenY |-> FloorDiv(17 * den + 22 * yt, den),
              oneOverZ |-> IF den > 0 THEN (TorusKeyScale * FP) \div den
                           ELSE 0 - ((TorusKeyScale * FP) \div (0 - den)),
              luminance |-> (8 * lexp) \div FP,
              depth |-> den]

\* lines 146-147: the sample's cell is on the screen
TorusOnScreen(s) ==
    /\ s.finite
    /\ s.screenY >= 0 /\ s.screenY < SCREEN_HEIGHT
    /\ s.screenX >= 0 /\ s.screenX < SCREEN_WIDTH

\* line 148: the depth test
TorusDepthTest(oneOverZ, stored) == oneOverZ > stored

\* lines 144-153 on the frame st = [o, z, ramp, raw, near]
TorusWrite(st, s) ==
    LET screenIndex == s.screenX + SCREEN_WIDTH * s.screenY
    IN  IF TorusOnScreen(s) /\ TorusDepthTest(s.oneOverZ, st.z[screenIndex])
        THEN [o |-> [st.o EXCEPT ![screenIndex] =
                        Glyph(LUMINANCE_CHARS, CharIndex(s.luminance))],
              z |-> [st.z EXCEPT ![screenIndex] = s.oneOverZ],
              ramp |-> With(st.ramp, CharIndex(s.luminance)),
              raw |-> With(st.raw, s.luminance),
              near |-> Min(st.near, s.depth)]
        ELSE st

\* the inner loop (lines 96-154) over phi steps lo .. hi-1 of theta step k,
\* split in halves; the test on left only orders the evaluation
RECURSIVE TorusRow(_, _, _, _, _, _, _, _, _)
TorusRow(st, k, lo, hi, sinX, cosX, sinZ, cosZ, zoom) ==
    IF hi = lo + 1
    THEN TorusWrite(st, TorusSample(k, lo, sinX, cosX, sinZ, cosZ, zoom))
    ELSE LET mid == (lo + hi) \div 2
             left == TorusRow(st, k, lo, mid, sinX, cosX, sinZ, cosZ, zoom)
         IN  IF left.near = left.near
             THEN TorusRow(left, k, mid, hi, sinX, cosX, sinZ, cosZ, zoom)
             ELSE left

(***************************************************************************)
(* The black-hole closure (lines 171-444)                                  *)
(***************************************************************************)
CHARS == <<".", ",", "-", "~", ":", ";", "=", "!", "*", "#", "$", "@">>
ASPECT == FP \div 2
HOLE_K2_MIN == 200
HOLE_K2_MAX == 1200

\* MeasureGrid without the clamp of lines 187-188
MeasureGridUnclamped(inner, cell, fallback, lo, hi) ==
    inner \div (IF cell = 0 THEN fallback ELSE cell)

\* lines 185-188: the grid measure() computes for a viewport of inner pixels
\* and a probe span of cell pixels (a zero span size falls back to fallback)
MeasureGrid(inner, cell, fallback, lo, hi) ==
    Min(hi, Max(lo, inner \div (IF cell = 0 THEN fallback ELSE cell)))

MeasureW(inner, cell) == MeasureGrid(inner, cell, 8, 40, 280)
MeasureH(inner, cell) == MeasureGrid(inner, cell, 16, 20, 90)

\* lines 204-207: the mousemove listener, clientX / innerWidth = num / den;
\* the velocities are in angle units per frame
HoleVelocityB(num, den) == FP \div 100 + (((2 * num - den) * 3 * (FP \div 100)) \div den)
HoleVelocityA(num, den) == ((2 * num - den) * 2 * (FP \div 100)) \div den

\* HoleZoom without the upper clamp of line 214
HoleZoomNoUpper(zoom, deltaY) ==
    LET z1 == zoom + deltaY
    IN  IF z1 < HOLE_K2_MIN THEN HOLE_K2_MIN ELSE z1

\* lines 212-214: the wheel listener
HoleZoom(zoom, deltaY) ==
    LET z1 == zoom + deltaY
        z2 == IF z1 < HOLE_K2_MIN THEN HOLE_K2_MIN ELSE z1
    IN  IF z2 > HOLE_K2_MAX THEN HOLE_K2_MAX ELSE z2

\* lines 233-236: the cleared arrays of an w x h grid
ClearBuf(w, h) == [i \in 0..(w * h - 1) |-> IF i % w = w - 1 THEN "\n" ELSE " "]
ClearZbuf(w, h) == [i \in 0..(w * h - 1) |-> 0]

\* line 239, in hundredths of a cell
Scale(w, h) == (Min(50 * w, (50 * h * FP) \div ASPECT) * 8) \div 10

\* line 242, in units of 1/10000
ShadowR == 18000

\* ShadowScreenR with the factor scale left out of lines 290, 369, 412
ShadowScreenRUnscaled(w, h, zoom) == (ShadowR * 100) \div (zoom * (FP \div 100))

\* lines 288-290, 368-369, 411-412: the shadow's screen radius, hundredths
ShadowScreenR(w, h, zoom) == (ShadowR * Scale(w, h)) \div (zoom * (FP \div 100))

\* depth keys of this scene are in units of 2^-28
KeyScale == 2 ^ 28

\* 1 / depth as a depth key
HoleKey(depth) == (KeyScale \div depth) * FP + ((KeyScale % depth) * FP) \div depth

\* the biases 0.01 (line 401) and 0.005 (line 426) as depth keys
LensBias == KeyScale \div 100
RingBias == KeyScale \div 200

\* the number of binary digits of n > 0
RECURSIVE Bits(_)
Bits(n) == IF n < 2 THEN 1 ELSE 1 + Bits(n \div 2)

\* the store into the Float32Array zbuf (lines 322, 403, 428): a depth key
\* keeps 24 significant binary digits, rounded to nearest, ties to even
Fround(key) ==
    IF key <= 0 \/ Bits(key) <= 24 THEN key
    ELSE LET q == 2 ^ (Bits(key) - 24)
             down == (key \div q) * q
             rest == key - down
         IN  IF 2 * rest > q THEN down + q
             ELSE IF 2 * rest < q THEN down
             ELSE IF (key \div q) % 2 = 0 THEN down ELSE down + q

\* lines 321, 402, 427: the depth test against the stored key
HoleDepthTest(key, stored) == key > stored

\* lines 317-318, 396-397
ClampIdx(charIdx) == IF charIdx < 0 THEN 0 ELSE IF charIdx > 11 THEN 11 ELSE charIdx

\* lines 431-432
ClampRing(bright) == IF bright < 6 THEN 6 ELSE IF bright > 11 THEN 11 ELSE bright

\* lines 284, 385, 422
HoleOnGrid(ix, iy, w, h) == ~(ix < 0 \/ ix >= w - 1 \/ iy < 0 \/ iy >= h)

\* lines 259-272: the disk point (r, theta) rotated by A and then by B
Rotate(r, theta, sinA, cosA, sinB, cosB) ==
    LET px == Mul(r, Cos(theta))
        pz == Mul(r, Sin(theta))
        y1 == 0 - Mul(pz, sinA)
        z1 == Mul(pz, cosA)
    IN  [x2 |-> Mul(px, cosB) + Mul(z1, sinB),
         y2 |-> y1,
         z2 |-> (0 - Mul(px, sinB)) + Mul(z1, cosB)]

\* lines 279-280 and 293-295: screen position and distance from the centre,
\* in hundredths of a cell; x2 * scale / depth is the program's
\* x2 * invD * scale
Project(p, depth, w, h) ==
    LET sx == 50 * w + FloorDiv(p.x2 * Scale(w, h), depth)
        sy == 50 * h + Mul(FloorDiv(p.y2 * Scale(w, h), depth), ASPECT)
    IN  [sx |-> sx, sy |-> sy]

PixDist(sx, sy, w, h) ==
    LET dx == sx - 50 * w
        dy == ((sy - 50 * h) * FP) \div ASPECT
    IN  Sqrt(dx * dx + dy * dy)

\* a sample that an early "continue" discards
NoSample == [hit |-> FALSE, idx |-> 0, key |-> 0, charIdx |-> 0, raw |-> 0,
             layer |-> "", depth |-> 0]

\* lines 251-318: the main-disk sample (ri, ti) up to its depth test
DiskSample(ri, ti, sinA, cosA, sinB, cosB, zoom, w, h) ==
    LET rInner == 22000
        rOuter == 55000
        r == rInner + ((rOuter - rInner) * ri) \div 30
        heat0 == Max(0, FP - ((r - rInner) * FP) \div (rOuter - rInner))
        heat == Mul(Mul(heat0, heat0), 7000) + Mul(3000, heat0)
        theta == (TAU * ti) \div 300
        p == Rotate(r, theta, sinA, cosA, sinB, cosB)
        depth == p.z2 + zoom * (FP \div 100)
        s == Project(p, depth, w, h)
        ix == s.sx \div 100
        iy == s.sy \div 100
        doppler == FP + Mul(5000, Sin(theta))
        light == Mul(Abs(Mul(sinA, cosB)), 5000) + 5000
        brightness == Mul(Mul(heat, doppler), light)
        charIdx == (brightness * 11) \div FP
    IN  IF depth < 5000 THEN NoSample
        ELSE IF ~HoleOnGrid(ix, iy, w, h) THEN NoSample
        ELSE IF p.z2 > 0 /\ PixDist(s.sx, s.sy, w, h) < ShadowScreenR(w, h, zoom)
             THEN NoSample
        ELSE [hit |-> TRUE, idx |-> iy * w + ix, key |-> HoleKey(depth),
              charIdx |-> ClampIdx(charIdx), raw |-> charIdx,
              layer |-> IF p.z2 > 0 THEN "far" ELSE "near", depth |-> depth]

\* lines 334-401: the lensed-arc sample (ri, ti) up to its depth test
LensSample(ri, ti, sinA, cosA, sinB, cosB, zoom, w, h) ==
    LET rInner == 22000
        rOuter == 55000
        r == rInner + ((rOuter \div 2 - rInner) * ri) \div 15
        heat0 == Max(0, FP - ((r - rInner) * FP) \div (rOuter - rInner))
        heat == Mul(Mul(heat0, heat0), 6000)
        theta == (TAU * ti) \div 300
        p == Rotate(r, theta, sinA, cosA, sinB, cosB)
        depth == p.z2 + zoom * (FP \div 100)
        s == Project(p, depth, w, h)
        pixDist == PixDist(s.sx, s.sy, w, h)
        shadowScreenR == ShadowScreenR(w, h, zoom)
        targetDist == shadowScreenR + ((pixDist - shadowScreenR) * 3) \div 10
        dx == s.sx - 50 * w
        dy == ((s.sy - 50 * h) * FP) \div ASPECT
        sx == IF pixDist > 1 THEN 50 * w + FloorDiv(dx * targetDist, pixDist)
              ELSE s.sx
        sy == IF pixDist > 1
              THEN 50 * h + Mul(FloorDiv(dy * targetDist, pixDist), ASPECT)
              ELSE s.sy
        ix == sx \div 100
        iy == sy \div 100
        doppler == FP + Mul(4000, Sin(theta))
        brightness == Mul(Mul(heat, doppler), 8000)
        charIdx == (brightness * 11) \div FP
    IN  IF p.z2 < 2000 THEN NoSample
        ELSE IF depth < 5000 THEN NoSample
        ELSE IF pixDist < (shadowScreenR * 3) \div 10 THEN NoSample
        ELSE IF ~HoleOnGrid(ix, iy, w, h) THEN NoSample
        ELSE IF PixDist(sx, sy, w, h) < shadowScreenR THEN NoSample
        ELSE [hit |-> TRUE, idx |-> iy * w + ix, key |-> HoleKey(depth) + LensBias,
              charIdx |-> ClampIdx(charIdx), raw |-> charIdx,
              layer |-> "lens", depth |-> depth]

\* RingSample with ringZ = 0.005, shadowInvD left out of line 426
RingSampleBiasOnly(ti, dr, b, zoom, w, h) ==
    LET ang == (TAU * ti) \div 600
        rr == ShadowScreenR(w, h, zoom) + dr * 80
        rx == 50 * w + Mul(Cos(ang), rr)
        ry == 50 * h + Mul(Mul(Sin(ang), rr), ASPECT)
        ix == rx \div 100
        iy == ry \div 100
        bright == 8 + (2 * Sin(2 * ang + b)) \div FP
    IN  IF ~HoleOnGrid(ix, iy, w, h) THEN NoSample
        ELSE [hit |-> TRUE, idx |-> iy * w + ix,
              key |-> RingBias,
              charIdx |-> ClampRing(bright), raw |-> bright,
              layer |-> "ring", depth |-> zoom * (FP \div 100)]

\* lines 414-432: the photon-ring sample (ti, dr) up to its depth test
RingSample(ti, dr, b, zoom, w, h) ==
    LET ang == (TAU * ti) \div 600
        rr == ShadowScreenR(w, h, zoom) + dr * 80
        rx == 50 * w + Mul(Cos(ang), rr)
        ry == 50 * h + Mul(Mul(Sin(ang), rr), ASPECT)
        ix == rx \div 100
        iy == ry \div 100
        bright == 8 + (2 * Sin(2 * ang + b)) \div FP
    IN  IF ~HoleOnGrid(ix, iy, w, h) THEN NoSample
        ELSE [hit |-> TRUE, idx |-> iy * w + ix,
              key |-> HoleKey(zoom * (FP \div 100)) + RingBias,
              charIdx |-> ClampRing(bright), raw |-> bright,
              layer |-> "ring", depth |-> zoom * (FP \div 100)]

\* lines 320-324, 399-405, 424-434 on the frame
\* st = [b, z, own, off, ramp, raw, near]
HoleWrite(st, s) ==
    IF ~s.hit THEN st
    ELSE IF HoleDepthTest(s.key, st.z[s.idx])
    THEN [b |-> [st.b EXCEPT ![s.idx] = Glyph(CHARS, s.charIdx)],
          z |-> [st.z EXCEPT ![s.idx] = Fround(s.key)],
          own |-> [st.own EXCEPT ![s.idx] = s.layer],
          off |-> [st.off EXCEPT ![s.idx] = With(@, s.layer)],
          ramp |-> With(st.ramp, s.charIdx),
          raw |-> With(st.raw, s.raw),
          near |-> Min(st.near, s.depth)]
    ELSE [st EXCEPT !.off = [st.off EXCEPT ![s.idx] = With(@, s.layer)]]

\* the inner loops over theta steps lo .. hi-1 of radius step ri
RECURSIVE DiskRow(_, _, _, _, _, _, _, _, _, _, _)
DiskRow(st, ri, lo, hi, sinA, cosA, sinB, cosB, zoom, w, h) ==
    IF hi = lo + 1
    THEN HoleWrite(st, DiskSample(ri, lo, sinA, cosA, sinB, cosB, zoom, w, h))
    ELSE LET mid == (lo + hi) \div 2
             left == DiskRow(st, ri, lo, mid, sinA, cosA, sinB, cosB, zoom, w, h)
         IN  IF left.near = left.near
             THEN DiskRow(left, ri, mid, hi, sinA, cosA, sinB, cosB, zoom, w, h)
             ELSE left

RECURSIVE LensRow(_, _, _, _, _, _, _, _, _, _, _)
LensRow(st, ri, lo, hi, sinA, cosA, sinB, cosB, zoom, w, h) ==
    IF hi = lo + 1
    THEN HoleWrite(st, LensSample(ri, lo, sinA, cosA, sinB, cosB, zoom, w, h))
    ELSE LET mid == (lo + hi) \div 2
             left == LensRow(st, ri, lo, mid, sinA, cosA, sinB, cosB, zoom, w, h)
         IN  IF left.near = left.near
             THEN LensRow(left, ri, mid, hi, sinA, cosA, sinB, cosB, zoom, w, h)
             ELSE left

\* ring steps lo .. hi-1, each with its two radii dr = 0, 1
RECURSIVE RingRow(_, _, _, _, _, _, _)
RingRow(st, lo, hi, b, zoom, w, h) ==
    IF hi = lo + 1
    THEN LET first == HoleWrite(st, RingSample(lo, 0, b, zoom, w, h))
         IN  IF first.near = first.near
             THEN HoleWrite(first, RingSample(lo, 1, b, zoom, w, h))
             ELSE first
    ELSE LET mid == (lo + hi) \div 2
             left == RingRow(st, lo, mid, b, zoom, w, h)
         IN  IF left.near = left.near
             THEN RingRow(left, mid, hi, b, zoom, w, h)
             ELSE left

(***************************************************************************)
(* Bounds of the model and the inputs it draws                             *)
(***************************************************************************)
\* input events per behaviour, timer frames per behaviour, frames of the
\* black-hole scene rendered sample by sample, samples offered to the depth
\* test
MaxInputs == 4
MaxFrames == 4
HoleFrames == 2
MaxOffers == 3

\* larger than any perspective depth
FarAway == 100 * FP

\* deltaY of a wheel event, in the units of K2 (deltaY * 0.01 = d / 100)
WheelDeltas == {0 - 1000, 0 - 300, 100, 1000}

\* pointer positions as fractions of the viewport: [xn / xd, yn / yd]
Pointers == {[xn |-> 1, xd |-> 4, yn |-> 1, yd |-> 2],
             [xn |-> 1, xd |-> 1, yn |-> 0, yd |-> 1]}

\* viewport and probe-span sizes in pixels
Viewports == {[iw |-> 640, ih |-> 384, cw |-> 8, ch |-> 16],
              [iw |-> 0, ih |-> 0, cw |-> 0, ch |-> 0],
              [iw |-> 4000, ih |-> 3000, cw |-> 10, ch |-> 20]}

NoFrame == [w |-> 0, h |-> 0, len |-> 0, zlen |-> 0, view |-> <<>>,
            pending |-> FALSE, measures |-> 0]
Idle == [at |-> "idle", scene |-> "page", i |-> 0]
NoPair == [stage |-> 0, torus |-> 0, hole |-> 0]

(***************************************************************************)
(* Events: the listeners and timers of both scripts                        *)
(***************************************************************************)
\* the state once both scripts have run (lines 14-24, 196-200, 442-443):
\* the globals of the torus script, the state of the closure, the grid
\* measure() made for the initial viewport v, and nothing rendered yet
TorusLoaded == rotationX = FP /\ rotationZ = FP /\ K2 = 500

HoleLoaded ==
    A = PI \div 3 /\ B = 0 /\ vA = 0 /\ vB = 2 * (FP \div 100) /\ holeK2 = 500

Measured(v) ==
    /\ innerWidth = v.iw /\ innerHeight = v.ih
    /\ offsetWidth = v.cw /\ offsetHeight = v.ch
    /\ W = MeasureW(v.iw, v.cw) /\ H = MeasureH(v.ih, v.ch)
    /\ N = MeasureW(v.iw, v.cw) * MeasureH(v.ih, v.ch)
    /\ bufLen = N /\ zbufLen = N

NoArrays ==
    /\ output = <<>> /\ zBuffer = <<>>
    /\ buf = <<>> /\ zbuf = <<>>
    /\ owner = <<>> /\ offered = <<>>

NoHistory ==
    /\ resizeTimer = 0 - 1
    /\ untilAnimate = 50 /\ untilRender = 50
    /\ inputs = 0 /\ frames = 0 /\ measures = 0 /\ wheelPair = NoPair
    /\ shownTorus = NoFrame /\ shownHole = NoFrame
    /\ rampUsed = {} /\ rawIndex = {} /\ minDepth = FarAway
    /\ holderKey = <<>> /\ bestKey = <<>>

NothingRendered == NoArrays /\ NoHistory

Init ==
    /\ pc = Idle
    /\ TorusLoaded /\ HoleLoaded /\ NothingRendered
    /\ \E v \in Viewports : Measured(v)

\* both mousemove listeners (lines 31-36 and 203-208)
MouseMove(p) ==
    /\ pc = Idle /\ inputs < MaxInputs
    /\ innerWidth > 0 /\ innerHeight > 0
    /\ rotationZ' = TorusRotation(p.xn, p.xd)
    /\ rotationX' = TorusRotation(p.yn, p.yd)
    /\ vB' = HoleVelocityB(p.xn, p.xd)
    /\ vA' = HoleVelocityA(p.yn, p.yd)
    /\ inputs' = inputs + 1
    /\ UNCHANGED <<K2, A, B, holeK2, torusFrame, gridVars, holeFrame, envVars,
                   timeVars, pc, frames, measures, wheelPair, shownTorus,
                   shownHole, frameHist, depthHist>>

\* the wheel pair: stage 1 after deltaY = 1000, stage 2 when deltaY = -1000
\* follows it; torus and hole are the zooms the pair started from
NextPair(pair, deltaY, zoomT, zoomH) ==
    IF deltaY = 1000 THEN [stage |-> 1, torus |-> zoomT, hole |-> zoomH]
    ELSE IF deltaY = 0 - 1000 /\ pair.stage = 1 THEN [pair EXCEPT !.stage = 2]
    ELSE NoPair

\* both wheel listeners (lines 45-56 and 210-215)
Wheel(deltaY) ==
    /\ pc = Idle /\ inputs < MaxInputs
    /\ K2' = TorusZoom(K2, deltaY)
    /\ holeK2' = HoleZoom(holeK2, deltaY)
    /\ wheelPair' = NextPair(wheelPair, deltaY, K2, holeK2)
    /\ inputs' = inputs + 1
    /\ UNCHANGED <<rotationX, rotationZ, A, B, vA, vB, torusFrame, gridVars,
                   holeFrame, envVars, timeVars, pc, frames, measures,
                   shownTorus, shownHole, frameHist, depthHist>>

\* Resize with no timer started: the listener of lines 218-221 left out
ResizeUnheard(v) ==
    /\ pc = Idle /\ inputs < MaxInputs
    /\ v # [iw |-> innerWidth, ih |-> innerHeight, cw |-> offsetWidth, ch |-> offsetHeight]
    /\ innerWidth' = v.iw /\ innerHeight' = v.ih
    /\ offsetWidth' = v.cw /\ offsetHeight' = v.ch
    /\ resizeTimer' = resizeTimer
    /\ inputs' = inputs + 1
    /\ UNCHANGED <<torusVars, torusFrame, holeVars, gridVars, holeFrame,
                   untilAnimate, untilRender, pc, frames, measures, wheelPair,
                   shownTorus, shownHole, frameHist, depthHist>>

\* the viewport changes to v and the resize listener (lines 218-221)
\* restarts the 150 ms timer
Resize(v) ==
    /\ pc = Idle /\ inputs < MaxInputs
    /\ v # [iw |-> innerWidth, ih |-> innerHeight, cw |-> offsetWidth, ch |-> offsetHeight]
    /\ innerWidth' = v.iw /\ innerHeight' = v.ih
    /\ offsetWidth' = v.cw /\ offsetHeight' = v.ch
    /\ resizeTimer' = 150
    /\ inputs' = inputs + 1
    /\ UNCHANGED <<torusVars, torusFrame, holeVars, gridVars, holeFrame,
                   untilAnimate, untilRender, pc, frames, measures, wheelPair,
                   shownTorus, shownHole, frameHist, depthHist>>

\* 25 ms pass while no timer is due
Elapse ==
    /\ pc = Idle
    /\ untilAnimate >= 25 /\ untilRender >= 25
    /\ resizeTimer = 0 - 1 \/ resizeTimer >= 25
    /\ untilAnimate' = untilAnimate - 25
    /\ untilRender' = untilRender - 25
    /\ resizeTimer' = IF resizeTimer = 0 - 1 THEN resizeTimer ELSE resizeTimer - 25
    /\ UNCHANGED <<torusVars, torusFrame, holeVars, gridVars, holeFrame, envVars,
                   pc, eventHist, frameHist, depthHist>>

\* measure() run by the resize timer (lines 180-193, 220)
MeasureTimer ==
    /\ pc = Idle /\ resizeTimer = 0
    /\ W' = MeasureW(innerWidth, offsetWidth)
    /\ H' = MeasureH(innerHeight, offsetHeight)
    /\ N' = W' * H'
    /\ bufLen' = N' /\ zbufLen' = N'
    /\ resizeTimer' = 0 - 1
    /\ measures' = measures + 1
    /\ UNCHANGED <<torusVars, torusFrame, holeVars, holeFrame, envVars,
                   untilAnimate, untilRender, pc, inputs, frames, wheelPair,
                   shownTorus, shownHole, frameHist, depthHist>>

\* the frame a script hands to the <pre> element
Shown(w, h, len, zlen) ==
    [w |-> w, h |-> h, len |-> len, zlen |-> zlen,
     view |-> <<innerWidth, innerHeight, offsetWidth, offsetHeight>>,
     pending |-> resizeTimer # 0 - 1, measures |-> measures]

\* animate() every 50 ms (lines 164-169): renderFrame as far as the page
\* state goes; its samples are the steps TorusBegin .. TorusEnd
AnimateTick ==
    /\ pc = Idle /\ untilAnimate = 0
    /\ shownTorus' = Shown(SCREEN_WIDTH, SCREEN_HEIGHT,
                           SCREEN_WIDTH * SCREEN_HEIGHT, SCREEN_WIDTH * SCREEN_HEIGHT)
    /\ untilAnimate' = 50
    /\ UNCHANGED <<torusVars, torusFrame, holeVars, gridVars, holeFrame, envVars,
                   untilRender, resizeTimer, pc, inputs, frames, measures,
                   wheelPair, shownHole, frameHist, depthHist>>

\* render() every 50 ms (lines 224-236, 438, 443) as far as the page state
\* goes; its samples are the steps HoleBegin .. HoleEnd
RenderTick ==
    /\ pc = Idle /\ untilRender = 0 /\ frames < MaxFrames
    /\ IF bufLen < 0    \* !buf: no measure() has allocated the arrays
       THEN UNCHANGED <<A, B, shownHole>>
       ELSE /\ A' = A + vA
            /\ B' = B + vB
            /\ shownHole' = Shown(W, H, bufLen, zbufLen)
    /\ frames' = frames + 1
    /\ untilRender' = 50
    /\ UNCHANGED <<torusVars, torusFrame, vA, vB, holeK2, gridVars, holeFrame,
                   envVars, untilAnimate, resizeTimer, pc, inputs, measures,
                   wheelPair, shownTorus, frameHist, depthHist>>

Next ==
    \/ \E p \in Pointers : MouseMove(p)
    \/ \E d \in WheelDeltas : Wheel(d)
    \/ \E v \in Viewports : Resize(v)
    \/ Elapse
    \/ MeasureTimer
    \/ AnimateTick
    \/ RenderTick

Spec == Init /\ [][Next]_vars

(***************************************************************************)
(* Frames: renderFrame and render, one outer-loop iteration per step       *)
(***************************************************************************)
\* views the torus can be in: the rotation the pointer left and the zoom the
\* wheel left.  The first is the state after load, the second follows
\* deltaY = -300, the third a pointer at (1/4, 1/2) and deltaY = 1000, the
\* fourth a pointer at (1, 0) and deltaY = -300
TorusViews == {[rx |-> FP, rz |-> FP, zoom |-> 500],
               [rx |-> FP, rz |-> FP, zoom |-> 200],
               [rx |-> TorusRotation(1, 2), rz |-> TorusRotation(1, 4), zoom |-> 1500],
               [rx |-> TorusRotation(0, 1), rz |-> TorusRotation(1, 1), zoom |-> 200]}

\* views the black hole can be in: the pointer position, the frames already
\* rendered with it, the zoom the wheel left and the viewport measured.  A
\* pointer at (2/3, 1/2) gives the velocities the closure starts with
RestPointer == [xn |-> 2, xd |-> 3, yn |-> 1, yd |-> 2]
HoleViews == {[p |-> RestPointer, ticks |-> 70, zoom |-> 500,
               v |-> [iw |-> 640, ih |-> 384, cw |-> 8, ch |-> 16]],
              [p |-> RestPointer, ticks |-> 0, zoom |-> 1200,
               v |-> [iw |-> 0, ih |-> 0, cw |-> 0, ch |-> 0]],
              [p |-> RestPointer, ticks |-> 175, zoom |-> 200,
               v |-> [iw |-> 328, ih |-> 340, cw |-> 8, ch |-> 16]],
              [p |-> [xn |-> 1, xd |-> 1, yn |-> 0, yd |-> 1], ticks |-> 52, zoom |-> 1200,
               v |-> [iw |-> 0, ih |-> 0, cw |-> 0, ch |-> 0]]}

AtIdle(scene) == [at |-> "idle", scene |-> scene, i |-> 0]

InitFrame ==
    /\ NothingRendered
    /\ \/ /\ pc = AtIdle("torus")
          /\ \E t \in TorusViews :
                rotationX = t.rx /\ rotationZ = t.rz /\ K2 = t.zoom
          /\ HoleLoaded
          /\ Measured([iw |-> 640, ih |-> 384, cw |-> 8, ch |-> 16])
       \/ /\ pc = AtIdle("hole")
          /\ TorusLoaded
          /\ \E g \in HoleViews :
                /\ vA = HoleVelocityA(g.p.yn, g.p.yd)
                /\ vB = HoleVelocityB(g.p.xn, g.p.xd)
                /\ A = PI \div 3 + g.ticks * vA
                /\ B = g.ticks * vB
                /\ holeK2 = g.zoom
                /\ Measured(g.v)

\* lines 72-80: renderFrame starts and clears its arrays
TorusBegin ==
    /\ pc = AtIdle("torus") /\ frames = 0
    /\ output' = ClearOutput
    /\ zBuffer' = ClearZBuffer
    /\ rampUsed' = {} /\ rawIndex' = {} /\ minDepth' = FarAway
    /\ pc' = [at |-> "theta", scene |-> "torus", i |-> 0]
    /\ UNCHANGED <<torusVars, holeVars, gridVars, holeFrame, envVars, timeVars,
                   eventHist, owner, offered, depthHist>>

\* lines 91-155: one iteration of the theta loop
TorusStep ==
    /\ pc.at = "theta" /\ pc.i < ThetaSteps
    /\ \E st \in {TorusRow([o |-> output, z |-> zBuffer, ramp |-> rampUsed,
                            raw |-> rawIndex, near |-> minDepth],
                           pc.i, 0, PhiSteps,
                           Sin(rotationX), Cos(rotationX),
                           Sin(rotationZ), Cos(rotationZ), K2)} :
          /\ output' = st.o
          /\ zBuffer' = st.z
          /\ rampUsed' = st.ramp
          /\ rawIndex' = st.raw
          /\ minDepth' = st.near
    /\ pc' = [pc EXCEPT !.i = @ + 1]
    /\ UNCHANGED <<torusVars, holeVars, gridVars, holeFrame, envVars, timeVars,
                   eventHist, owner, offered, depthHist>>

\* lines 157-158: the frame is joined and handed to the <pre>
TorusEnd ==
    /\ pc.at = "theta" /\ pc.i = ThetaSteps
    /\ shownTorus' = Shown(SCREEN_WIDTH, SCREEN_HEIGHT,
                           Cardinality(DOMAIN output), Cardinality(DOMAIN zBuffer))
    /\ frames' = frames + 1
    /\ pc' = AtIdle("torus")
    /\ UNCHANGED <<torusVars, torusFrame, holeVars, gridVars, holeFrame, envVars,
                   timeVars, inputs, measures, wheelPair, shownHole, frameHist,
                   depthHist>>

\* lines 224-236: render starts, advances the rotation and clears its arrays
HoleBegin ==
    /\ pc = AtIdle("hole") /\ frames < HoleFrames
    /\ bufLen >= 0
    /\ A' = A + vA
    /\ B' = B + vB
    /\ buf' = ClearBuf(W, H)
    /\ zbuf' = ClearZbuf(W, H)
    /\ owner' = [i \in 0..(N - 1) |-> ""]
    /\ offered' = [i \in 0..(N - 1) |-> {}]
    /\ rampUsed' = {} /\ rawIndex' = {} /\ minDepth' = FarAway
    /\ pc' = [at |-> "disk", scene |-> "hole", i |-> 0]
    /\ UNCHANGED <<torusVars, torusFrame, vA, vB, holeK2, gridVars, envVars,
                   timeVars, eventHist, depthHist>>

\* the frame record of the black-hole scene
HoleFrame ==
    [b |-> buf, z |-> zbuf, own |-> owner, off |-> offered,
     ramp |-> rampUsed, raw |-> rawIndex, near |-> minDepth]

\* the frame st becomes the state and the loop goes on at position to
HoleStep(st, to) ==
    /\ buf' = st.b
    /\ zbuf' = st.z
    /\ owner' = st.own
    /\ offered' = st.off
    /\ rampUsed' = st.ramp
    /\ rawIndex' = st.raw
    /\ minDepth' = st.near
    /\ pc' = to
    /\ UNCHANGED <<torusVars, torusFrame, holeVars, gridVars, envVars, timeVars,
                   eventHist, depthHist>>

\* lines 250-326: one iteration of the radius loop of the main disk
DiskStep ==
    /\ pc.at = "disk"
    /\ \E st \in {DiskRow(HoleFrame, pc.i, 0, 300, Sin(A), Cos(A), Sin(B), Cos(B),
                          holeK2, W, H)} :
          HoleStep(st, IF pc.i + 1 < 30 THEN [pc EXCEPT !.i = @ + 1]
                       ELSE [at |-> "lens", scene |-> "hole", i |-> 0])

\* lines 333-407: one iteration of the radius loop of the lensed arc
LensStep ==
    /\ pc.at = "lens"
    /\ \E st \in {LensRow(HoleFrame, pc.i, 0, 300, Sin(A), Cos(A), Sin(B), Cos(B),
                          holeK2, W, H)} :
          HoleStep(st, IF pc.i + 1 < 15 THEN [pc EXCEPT !.i = @ + 1]
                       ELSE [at |-> "ring", scene |-> "hole", i |-> 0])

\* lines 411-436: one iteration of the angle loop of the photon ring
RingStep ==
    /\ pc.at = "ring"
    /\ \E st \in {RingRow(HoleFrame, pc.i, pc.i + 1, B, holeK2, W, H)} :
          HoleStep(st, IF pc.i + 1 < 600 THEN [pc EXCEPT !.i = @ + 1]
                       ELSE [at |-> "join", scene |-> "hole", i |-> 0])

\* line 438: the frame is joined and handed to the <pre>
HoleEnd ==
    /\ pc.at = "join"
    /\ shownHole' = Shown(W, H, Cardinality(DOMAIN buf), Cardinality(DOMAIN zbuf))
    /\ frames' = frames + 1
    /\ pc' = AtIdle("hole")
    /\ UNCHANGED <<torusVars, torusFrame, holeVars, gridVars, holeFrame, envVars,
                   timeVars, inputs, measures, wheelPair, shownTorus, frameHist,
                   depthHist>>

NextFrame ==
    \/ TorusBegin
    \/ TorusStep
    \/ TorusEnd
    \/ HoleBegin
    \/ DiskStep
    \/ LensStep
    \/ RingStep
    \/ HoleEnd

SpecFrame == InitFrame /\ [][NextFrame]_vars

(***************************************************************************)
(* The depth test on its own: samples offered to cells of a cleared frame  *)
(***************************************************************************)
\* the cells probed and the depth keys drawn.  The torus stores its keys in
\* a plain array (doubles), the black hole in a Float32Array; the keys of
\* the black hole are in units of 2^-30 and are those of two pairs of
\* main-disk samples that fall into one cell (0.25076121649 and
\* 0.25076121191, 0.17522090306 and 0.17522090499)
DepthCells == {125, 126}
TorusDrawnKeys == {0 - 4, 3, 7}
HoleDrawnKeys == {269252801, 269252806, 188142012, 188142014}

AtOffer(scene, i) == [at |-> "depth", scene |-> scene, i |-> i]

\* a frame right after its clear loop (lines 77-80, 233-236)
InitDepth ==
    /\ NoHistory
    /\ TorusLoaded /\ HoleLoaded
    /\ Measured([iw |-> 0, ih |-> 0, cw |-> 0, ch |-> 0])
    /\ \E scene \in {"torus", "hole"} : pc = AtOffer(scene, 0)
    /\ output = ClearOutput /\ zBuffer = ClearZBuffer
    /\ buf = ClearBuf(W, H) /\ zbuf = ClearZbuf(W, H)
    /\ owner = [i \in 0..(N - 1) |-> ""]
    /\ offered = [i \in 0..(N - 1) |-> {}]

\* the largest key offered to cell c so far, key included
Best(c, key) ==
    (c :> IF c \in DOMAIN bestKey THEN Max(bestKey[c], key) ELSE key) @@ bestKey

\* lines 144-153 for a sample with depth key key and luminance index lum
\* that projects to cell c
OfferTorus(c, key, lum) ==
    /\ pc.at = "depth" /\ pc.scene = "torus" /\ pc.i < MaxOffers
    /\ \E st \in {TorusWrite([o |-> output, z |-> zBuffer, ramp |-> rampUsed,
                             raw |-> rawIndex, near |-> minDepth],
                            [finite |-> TRUE,
                             screenX |-> c % SCREEN_WIDTH,
                             screenY |-> c \div SCREEN_WIDTH,
                             oneOverZ |-> key, luminance |-> lum,
                             depth |-> FP])} :
          /\ output' = st.o
          /\ zBuffer' = st.z
          /\ rampUsed' = st.ramp
          /\ rawIndex' = st.raw
          /\ minDepth' = st.near
          /\ holderKey' = IF st.z[c] # zBuffer[c] THEN (c :> key) @@ holderKey
                          ELSE holderKey
    /\ bestKey' = Best(c, key)
    /\ pc' = AtOffer("torus", pc.i + 1)
    /\ UNCHANGED <<torusVars, holeVars, gridVars, holeFrame, envVars, timeVars,
                   eventHist, owner, offered>>

\* lines 320-324 (399-405, 424-434) for a sample with depth key key and ramp
\* index idx that projects to cell c; the sample is tagged with its number
OfferHole(c, key, idx) ==
    /\ pc.at = "depth" /\ pc.scene = "hole" /\ pc.i < MaxOffers
    /\ \E st \in {HoleWrite(HoleFrame,
                           [hit |-> TRUE, idx |-> c, key |-> key,
                            charIdx |-> idx, raw |-> idx,
                            layer |-> ToString(pc.i), depth |-> FP])} :
          /\ buf' = st.b
          /\ zbuf' = st.z
          /\ owner' = st.own
          /\ offered' = st.off
          /\ rampUsed' = st.ramp
          /\ rawIndex' = st.raw
          /\ minDepth' = st.near
          /\ holderKey' = IF st.own[c] = ToString(pc.i) THEN (c :> key) @@ holderKey
                          ELSE holderKey
    /\ bestKey' = Best(c, key)
    /\ pc' = AtOffer("hole", pc.i + 1)
    /\ UNCHANGED <<torusVars, torusFrame, holeVars, gridVars, envVars, timeVars,
                   eventHist>>

NextDepth ==
    \/ \E c \in DepthCells, key \in TorusDrawnKeys : OfferTorus(c, key, 7)
    \/ \E c \in DepthCells, key \in HoleDrawnKeys : OfferHole(c, key, 7)

SpecDepth == InitDepth /\ [][NextDepth]_vars

(***************************************************************************)
(* Properties                                                              *)
(***************************************************************************)
\* the cell at the screen centre of the black-hole grid
Centre == (H \div 2) * W + (W \div 2)

\* a frame of the scene has been handed to the <pre> and no other is begun
TorusShown == pc = AtIdle("torus") /\ frames > 0
HoleShown == pc = AtIdle("hole") /\ frames > 0

\* C1: in every reachable state the zoom of the torus is in [2, 15] and the
\* zoom of the black hole is in [2, 12], whatever wheel, pointer, resize and
\* timer events came before
C1_ZoomClamped ==
    /\ K2_MIN <= K2 /\ K2 <= K2_MAX
    /\ HOLE_K2_MIN <= holeK2 /\ holeK2 <= HOLE_K2_MAX

\* C1: a wheel event whose raw sum lies above both intervals has been heard
C1_BothAtMaximum == inputs > 0 /\ K2 = K2_MAX /\ holeK2 = HOLE_K2_MAX

\* C2: every probed cell that holds a glyph holds the glyph of the sample
\* with the largest depth key offered to it, and a probed cell nothing was
\* offered to is a space with depth key 0, in both scenes
C2_DepthTestCorrect ==
    \A c \in DepthCells :
        IF c \in DOMAIN bestKey
        THEN /\ (pc.scene = "torus" /\ output[c] # " ") => holderKey[c] = bestKey[c]
             /\ (pc.scene = "hole" /\ buf[c] # " ") => holderKey[c] = bestKey[c]
        ELSE /\ pc.scene = "torus" => (output[c] = " " /\ zBuffer[c] = 0)
             /\ pc.scene = "hole" => (buf[c] = " " /\ zbuf[c] = 0)

\* C3: every ramp index a written glyph was selected with is in [0, 11] and
\* no array holds the glyph of an invalid lookup, in both scenes
C3_RampIndexInRange ==
    /\ \A i \in rampUsed : 0 <= i /\ i <= 11
    /\ \A i \in DOMAIN output : output[i] # "undefined"
    /\ \A i \in DOMAIN buf : buf[i] # "undefined"

\* C3: a sample of negative luminance has been written and selected index 0
C3_NegativeWritten == 0 \in rampUsed /\ \E r \in rawIndex : r < 0

\* C4 as amended: no far-side main-disk, lensed-arc or photon-ring sample
\* reaches the centre cell of the black-hole grid; the only samples offered
\* to it, and the only glyphs it ever holds, are near-side main-disk ones
C4_CentreOnlyNearDisk ==
    buf # <<>> =>
        /\ offered[Centre] \subseteq {"near"}
        /\ owner[Centre] \in {"", "near"}

\* C4: the centre cell holds the glyph of a near-side main-disk sample
C4_CentreHoldsNearDisk == HoleShown /\ owner[Centre] = "near" /\ buf[Centre] # " "

\* C4 as stated: the centre cell of the black-hole grid is a space at the
\* end of every frame
C4_CentreIsSpace == HoleShown => buf[Centre] = " "

\* C5: in every frame shown, in both scenes, the last character of every row
\* is the line terminator
C5_LastColumnIsNewline ==
    /\ TorusShown =>
          \A r \in 0..(SCREEN_HEIGHT - 1) :
              output[r * SCREEN_WIDTH + SCREEN_WIDTH - 1] = "\n"
    /\ HoleShown => \A r \in 0..(H - 1) : buf[r * W + W - 1] = "\n"

\* C6: every frame the black hole shows has W in [40, 280], H in [20, 90]
\* and a glyph buffer and a depth buffer of exactly W * H entries, N = W * H
\* in every state, and every frame the torus shows is 120 x 35
C6_GridWithinBounds ==
    /\ N = W * H /\ bufLen = N /\ zbufLen = N
    /\ shownHole # NoFrame =>
          /\ 40 <= shownHole.w /\ shownHole.w <= 280
          /\ 20 <= shownHole.h /\ shownHole.h <= 90
          /\ shownHole.len = shownHole.w * shownHole.h
          /\ shownHole.zlen = shownHole.w * shownHole.h
    /\ shownTorus # NoFrame => shownTorus.w = 120 /\ shownTorus.h = 35

\* C6: a frame shown after a resize to a viewport larger than both maxima
C6_ClampedFrameShown ==
    shownHole.measures > 0 /\ shownHole.w = 280 /\ shownHole.h = 90

\* C7 as amended: after deltaY = 1000 then deltaY = -1000 the zoom of the
\* black hole is 2 whatever it started from, and the zoom of the torus is
\* the smaller of its start and 5
C7_PairEndsAtMinOfStartAndFive ==
    wheelPair.stage = 2 =>
        /\ holeK2 = HOLE_K2_MIN
        /\ K2 = Min(wheelPair.torus, K2_MAX - 1000)

\* C7: a pair that started from a torus zoom below 5 is complete
C7_PairFromBelowFive == wheelPair.stage = 2 /\ wheelPair.torus < K2_MAX - 1000

\* C7 as stated: after the pair each zoom has one final value whatever the
\* start; from the initial zoom 5 the torus ends at 5 and the black hole at
\* 2, so these are the values
C7_PairEndsAtOneValue ==
    wheelPair.stage = 2 => (holeK2 = HOLE_K2_MIN /\ K2 = K2_MAX - 1000)

C9_NearPlaneGuarded == minDepth >= FP \div 2

\* C10 as amended: a frame rendered while no resize timer is pending has
\* the W and H that measure() computes for the viewport it is rendered in
C10_SettledFrameMatchesViewport ==
    (shownHole # NoFrame /\ ~shownHole.pending) =>
        /\ shownHole.w = MeasureW(shownHole.view[1], shownHole.view[3])
        /\ shownHole.h = MeasureH(shownHole.view[2], shownHole.view[4])

\* C10: a frame rendered after the resize timer ran measure()
C10_FrameAfterMeasure == shownHole.measures > 0 /\ ~shownHole.pending

\* C10 as stated: every frame rendered has the W and H of the viewport it is
\* rendered in, also the first one after a resize event
C10_EveryFrameMatchesViewport ==
    shownHole # NoFrame =>
        /\ shownHole.w = MeasureW(shownHole.view[1], shownHole.view[3])
        /\ shownHole.h = MeasureH(shownHole.view[2], shownHole.view[4])

====
